---- MODULE Spec2Model ----
(***************************************************************************)
(* Model of internal/service/rds/instance.go: resolution of a DB instance  *)
(* from an identifier that is either a dbi-resource-id or a DB instance    *)
(* identifier, against the AWS SDK v1 client (paginated) and the AWS SDK   *)
(* v2 client (one response).                                               *)
(***************************************************************************)
EXTENDS Integers, Sequences, FiniteSets, TLC

VARIABLES calls, remote

vars == <<calls, remote>>

----------------------------------------------------------------------------
(* Bounds of the model. *)

\* longest record sequence one describe call can serve
MaxRecs == 2

\* most pages one paginated describe call delivers
MaxPages == 2

----------------------------------------------------------------------------
(* Values. *)

\* the DB instances the remote side may hold
Records == {"r1", "r2"}

\* a nil *rds.DBInstance
NilRec == "nil"

\* the characters matched by [0-9A-Za-z]
Alnum ==
    {"0", "1", "2", "3", "4", "5", "6", "7", "8", "9"} \cup
    {"A", "B", "C", "D", "E", "F", "G", "H", "I", "J", "K", "L", "M",
     "N", "O", "P", "Q", "R", "S", "T", "U", "V", "W", "X", "Y", "Z"} \cup
    {"a", "b", "c", "d", "e", "f", "g", "h", "i", "j", "k", "l", "m",
     "n", "o", "p", "q", "r", "s", "t", "u", "v", "w", "x", "y", "z"}

\* the {2,255} of the pattern
MinBody == 2
MaxBody == 255

\* identifiers, as sequences of characters
IdDbXYZ == <<"d", "b", "-", "X", "Y", "Z">>
IdDbX0 == <<"d", "b", "-", "x", "0">>
IdMydb == <<"m", "y", "d", "b", "-", "p">>
IdDbX == <<"d", "b", "-", "X">>
IdDbDash == <<"d", "b", "-", "X", "-", "Z">>

Ids == {IdDbXYZ, IdDbX0, IdMydb, IdDbX, IdDbDash}

\* n copies of the character ch
Rep(ch, n) == [i \in 1..n |-> ch]

\* db- followed by body
DbDash(body) == <<"d", "b", "-">> \o body

\* identifiers around the limits of the pattern: bodies of 0, 1, 2, 3, 254,
\* 255, 256 and 257 alphanumerics, in three alphabets
BoundaryIds ==
    {DbDash(Rep(ch, n)) : ch \in {"a", "Z", "7"}, n \in {0, 1, 2, 3, 254, 255, 256, 257}}

\* identifiers that differ from a resource ID in the prefix, in one character
\* of the body, or by a character before or after it
NearMissIds ==
    {<<>>,
     <<"d", "b">>,
     <<"D", "b", "-", "X", "Y", "Z">>,
     <<"d", "B", "-", "X", "Y", "Z">>,
     <<"d", "b", "_", "X", "Y", "Z">>,
     <<"d", "b", "X", "Y", "Z">>,
     <<"x", "d", "b", "-", "X", "Y", "Z">>,
     <<" ", "d", "b", "-", "X", "Y", "Z">>,
     <<"d", "b", "-", "X", "Y", "Z", "\n">>,
     <<"d", "b", "-", "X", "Y", " ">>,
     <<"d", "b", "-", "X", "_", "Z">>,
     <<"d", "b", "-", "-", "Y", "Z">>,
     <<"d", "b", "-", "X", "Y", ".">>,
     DbDash(Rep("a", 254) \o <<"-">>),
     DbDash(<<"-">> \o Rep("a", 254))}

\* the identifiers the classification is examined on
ClassifyIds == Ids \cup BoundaryIds \cup NearMissIds

\* error codes the client can fail with
ErrCodeDBInstanceNotFoundFault == "DBInstanceNotFound"
OtherCodes == {"RequestCanceled", "InternalFailure"}
ErrCodes == {ErrCodeDBInstanceNotFoundFault} \cup OtherCodes

\* an absent value of pointer type: <<>> is nil, <<v>> points to v
Nil == <<>>
Ptr(v) == <<v>>

\* error values; a nil error is NoErr
NoErr == [kind |-> "nil", code |-> "", LastRequest |-> Nil, Message |-> "", n |-> 0]

\* an error returned by the client: an awserr.Error (v1) or a typed fault (v2)
Fault(code) ==
    [kind |-> "fault", code |-> code, LastRequest |-> Nil, Message |-> "", n |-> 0]

\* &retry.NotFoundError{LastError: ..., LastRequest: ..., Message: ...};
\* code is the code of LastError ("" when LastError is nil)
NotFoundError(code, req, msg) ==
    [kind |-> "NotFoundError", code |-> code, LastRequest |-> req, Message |-> msg, n |-> 0]

\* the error for a result set of n > 1 records
TooManyResultsError(n) ==
    [kind |-> "TooManyResultsError", code |-> "", LastRequest |-> Nil, Message |-> "", n |-> n]

----------------------------------------------------------------------------
(* Sequences. *)

RECURSIVE SeqsUpTo(_, _)
SeqsUpTo(S, n) ==
    IF n = 0 THEN {<<>>}
    ELSE LET shorter == SeqsUpTo(S, n - 1)
         IN  shorter \cup {Append(s, x) : s \in {t \in shorter : Len(t) = n - 1}, x \in S}

----------------------------------------------------------------------------
(* Pure functions. *)

\* MatchString that takes the lower limit of the body as exclusive
MatchStringShortBody(id) ==
    /\ Len(id) > 3 + MinBody
    /\ Len(id) <= 3 + MaxBody
    /\ id[1] = "d"
    /\ id[2] = "b"
    /\ id[3] = "-"
    /\ \A i \in 4..Len(id) : id[i] \in Alnum

\* regexache.MustCompile(`^db-[0-9A-Za-z]{2,255}$`).MatchString(id)
MatchString(id) ==
    /\ Len(id) >= 3 + MinBody
    /\ Len(id) <= 3 + MaxBody
    /\ id[1] = "d"
    /\ id[2] = "b"
    /\ id[3] = "-"
    /\ \A i \in 4..Len(id) : id[i] \in Alnum

\* a DescribeDBInstancesInput: Filters is a sequence of filters (empty when
\* unset), DBInstanceIdentifier is Nil or Ptr(id)
Input(filters, identifier) == [Filters |-> filters, DBInstanceIdentifier |-> identifier]

\* the filter {Name: "dbi-resource-id", Values: [id]}
DbiResourceIdFilter(id) == [Name |-> "dbi-resource-id", Values |-> <<id>>]

\* PrimaryInput with the branches of the classification exchanged
PrimaryInputSwapped(id, looksLikeDbiResourceId) ==
    IF looksLikeDbiResourceId
    THEN Input(<<>>, Ptr(id))
    ELSE Input(<<DbiResourceIdFilter(id)>>, Nil)

\* the request built for the primary attempt
PrimaryInput(id, looksLikeDbiResourceId) ==
    IF looksLikeDbiResourceId
    THEN Input(<<DbiResourceIdFilter(id)>>, Nil)
    ELSE Input(<<>>, Ptr(id))

\* FallbackInput that builds the dbi-resource-id request again
FallbackInputRepeatingPrimary(id) == Input(<<DbiResourceIdFilter(id)>>, Nil)

\* FallbackInput that sets the identifier on the primary request and keeps
\* its filter
FallbackInputKeepingFilters(id) == Input(<<DbiResourceIdFilter(id)>>, Ptr(id))

\* the request built for the fallback attempt
FallbackInput(id) == Input(<<>>, Ptr(id))

\* tfslices.PredicateTrue: a predicate is the set of records it accepts
PredicateTrue == Records

\* the predicates a caller of findDBInstancesSDKv1 may pass
Predicates == SUBSET Records

\* tfawserr.ErrCodeEquals(err, code)
ErrCodeEquals(err, code) == err.kind = "fault" /\ err.code = code

\* errs.IsA[*types.DBInstanceNotFoundFault](err)
IsADBInstanceNotFoundFault(err) ==
    err.kind = "fault" /\ err.code = ErrCodeDBInstanceNotFoundFault

\* tfresource.NotFound(err): err is a *retry.NotFoundError
NotFound(err) == err.kind = "NotFoundError"

\* tfresource.NewEmptyResultError(lastRequest)
NewEmptyResultError(req) == NotFoundError("", req, "empty result")

\* tfresource.AssertSinglePtrResult / AssertSingleValueResult: the one record
\* of the result set, or an error for zero or for several records
AssertSingleResult(results) ==
    IF Len(results) = 0 THEN [rec |-> NilRec, err |-> NewEmptyResultError(Nil)]
    ELSE IF Len(results) > 1 THEN [rec |-> NilRec, err |-> TooManyResultsError(Len(results))]
    ELSE [rec |-> results[1], err |-> NoErr]

\* PageFn that stops the pagination at a nil page
PageFnStoppingOnNilPage(output, page, lastPage, filter) ==
    IF page = Nil
    THEN [output |-> output, cont |-> FALSE]
    ELSE [output |-> output \o SelectSeq(page[1].DBInstances,
                                         LAMBDA v : v # NilRec /\ v \in filter),
          cont |-> ~lastPage]

\* PageFn that returns lastPage where the callback returns !lastPage
PageFnStoppingEarly(output, page, lastPage, filter) ==
    IF page = Nil
    THEN [output |-> output, cont |-> lastPage]
    ELSE [output |-> output \o SelectSeq(page[1].DBInstances,
                                         LAMBDA v : v # NilRec /\ v \in filter),
          cont |-> lastPage]

\* the page callback of findDBInstancesSDKv1: the accumulator after the page,
\* and whether the client is asked for the next page
PageFn(output, page, lastPage, filter) ==
    IF page = Nil
    THEN [output |-> output, cont |-> ~lastPage]
    ELSE [output |-> output \o SelectSeq(page[1].DBInstances,
                                         LAMBDA v : v # NilRec /\ v \in filter),
          cont |-> ~lastPage]

\* ListerResult that builds the NotFoundError without the request
ListerResultWithoutRequest(output, err, input) ==
    IF ErrCodeEquals(err, ErrCodeDBInstanceNotFoundFault)
    THEN [output |-> Nil, err |-> NotFoundError(err.code, Nil, "")]
    ELSE IF err # NoErr
    THEN [output |-> Nil, err |-> err]
    ELSE [output |-> Ptr(output), err |-> NoErr]

\* ListerResult that swallows an error other than the not-found fault and
\* returns the records accumulated so far
ListerResultKeepingOutput(output, err, input) ==
    IF ErrCodeEquals(err, ErrCodeDBInstanceNotFoundFault)
    THEN [output |-> Nil, err |-> NotFoundError(err.code, Ptr(input), "")]
    ELSE IF err # NoErr
    THEN [output |-> Ptr(output), err |-> NoErr]
    ELSE [output |-> Ptr(output), err |-> NoErr]

\* findDBInstancesSDKv1 after the paginated call returned err
ListerResult(output, err, input) ==
    IF ErrCodeEquals(err, ErrCodeDBInstanceNotFoundFault)
    THEN [output |-> Nil, err |-> NotFoundError(err.code, Ptr(input), "")]
    ELSE IF err # NoErr
    THEN [output |-> Nil, err |-> err]
    ELSE [output |-> Ptr(output), err |-> NoErr]

\* findDBInstanceSDKv1 applied to the result of findDBInstancesSDKv1
FindOneResult(list) ==
    IF list.err # NoErr
    THEN [rec |-> NilRec, err |-> list.err]
    ELSE AssertSingleResult(list.output[1])

\* V1NeedsFallback that falls back on every error
V1NeedsFallbackOnAnyError(idLooksLikeDbiResourceId, err) ==
    idLooksLikeDbiResourceId /\ err # NoErr

\* the condition of the fallback in findDBInstanceByIDSDKv1
V1NeedsFallback(idLooksLikeDbiResourceId, err) ==
    idLooksLikeDbiResourceId /\ NotFound(err)

\* V1Return that returns output and a nil error whatever err is
V1ReturnDroppingErr(output, err) == [rec |-> output, err |-> NoErr]

\* the return statements of findDBInstanceByIDSDKv1
V1Return(output, err) ==
    IF err # NoErr THEN [rec |-> NilRec, err |-> err] ELSE [rec |-> output, err |-> NoErr]

\* V2NeedsFallback that falls back on a nil output only
V2NeedsFallbackOnNilOnly(id, output) ==
    MatchString(id) /\ output = Nil

\* the condition of the fallback in findDBInstanceByIDSDKv2
V2NeedsFallback(id, output) ==
    MatchString(id) /\ (IF output = Nil THEN TRUE ELSE Len(output[1].DBInstances) = 0)

\* V2Return that takes the first record of a result set of several
V2ReturnFirstMatch(output, err, input) ==
    IF IsADBInstanceNotFoundFault(err)
    THEN [rec |-> NilRec, err |-> NotFoundError(err.code, Ptr(input), "")]
    ELSE IF err # NoErr
    THEN [rec |-> NilRec, err |-> err]
    ELSE IF output = Nil
    THEN [rec |-> NilRec, err |-> NewEmptyResultError(Ptr(input))]
    ELSE IF Len(output[1].DBInstances) = 0
    THEN [rec |-> NilRec, err |-> NewEmptyResultError(Nil)]
    ELSE [rec |-> output[1].DBInstances[1], err |-> NoErr]

\* the tail of findDBInstanceByIDSDKv2, from the error checks on
V2Return(output, err, input) ==
    IF IsADBInstanceNotFoundFault(err)
    THEN [rec |-> NilRec, err |-> NotFoundError(err.code, Ptr(input), "")]
    ELSE IF err # NoErr
    THEN [rec |-> NilRec, err |-> err]
    ELSE IF output = Nil
    THEN [rec |-> NilRec, err |-> NewEmptyResultError(Ptr(input))]
    ELSE AssertSingleResult(output[1].DBInstances)

----------------------------------------------------------------------------
(* The remote side and the clients. *)

\* what one namespace of the remote side answers to a describe call: the
\* records it serves and the error the call ends with (NoErr: none)
Responses ==
    [recs : SeqsUpTo(Records, MaxRecs), err : {NoErr} \cup {Fault(code) : code \in ErrCodes}]

\* the answer to a request: by dbi-resource-id filter or by identifier
Describe(input) ==
    IF input.Filters # <<>> THEN remote.byFilter ELSE remote.byName

\* the (output, err) pairs conn.DescribeDBInstances of the v2 client returns
V2Outputs(resp) ==
    IF resp.err # NoErr
    THEN {[output |-> Nil, err |-> resp.err]}
    ELSE {[output |-> Ptr([DBInstances |-> resp.recs]), err |-> NoErr]} \cup
         (IF resp.recs = <<>> THEN {[output |-> Nil, err |-> NoErr]} ELSE {})

\* the page objects the v1 client may hand to the callback for the records recs
V1Pages(recs) ==
    {Ptr([DBInstances |-> recs]), Ptr([DBInstances |-> <<NilRec>> \o recs])} \cup
    (IF recs = <<>> THEN {Nil} ELSE {})

----------------------------------------------------------------------------
(* State. *)

\* one call of findDBInstanceByIDSDKv1 ("v1"), findDBInstanceByIDSDKv2 ("v2")
\* or findDBInstancesSDKv1 ("list"), about to run
NewCall(ver, id, input, filter) ==
    [ver |-> ver, id |-> id, filter |-> filter,
     pc |-> IF ver = "list" THEN "call" ELSE "begin",
     idLooksLikeDbiResourceId |-> FALSE,
     input |-> input,
     attempt |-> 1,
     remaining |-> <<>>, npages |-> 0, pagerErr |-> NoErr,
     pageIsNil |-> FALSE, lastPage |-> FALSE, cont |-> TRUE,
     listOutput |-> <<>>,
     list |-> [output |-> Nil, err |-> NoErr],
     output |-> IF ver = "v2" THEN Nil ELSE NilRec,
     err |-> NoErr,
     queries |-> <<>>,
     trace |-> <<>>,
     ret |-> [rec |-> NilRec, err |-> NoErr]]

Set(c, r) == calls' = [calls EXCEPT ![c] = r] /\ UNCHANGED remote

\* the requests a direct caller of findDBInstancesSDKv1 passes
ListInputs == {PrimaryInput(IdDbXYZ, TRUE), FallbackInput(IdDbXYZ)}

\* one call, of any of the three functions
Init ==
    /\ remote \in [byFilter : Responses, byName : Responses]
    /\ \/ \E ver \in {"v1", "v2"}, id \in Ids :
            calls = [c \in {ver} |-> NewCall(ver, id, Input(<<>>, Nil), PredicateTrue)]
       \/ \E input \in ListInputs, filter \in Predicates :
            /\ remote.byFilter = remote.byName
            /\ calls = [c \in {"list"} |-> NewCall("list", IdDbXYZ, input, filter)]

\* the two resolvers called with the same identifier against the same remote side
InitPair ==
    /\ remote \in [byFilter : Responses, byName : Responses]
    /\ \E id \in Ids :
         calls = [c \in {"v1", "v2"} |-> NewCall(c, id, Input(<<>>, Nil), PredicateTrue)]

\* the responses that serve copies of one record
OneRecordResponses ==
    [recs : SeqsUpTo({"r1"}, MaxRecs), err : {NoErr} \cup {Fault(code) : code \in ErrCodes}]

\* one call of a resolver, against a remote side that holds one record
InitFair ==
    /\ remote \in [byFilter : OneRecordResponses, byName : OneRecordResponses]
    /\ \E ver \in {"v1", "v2"}, id \in Ids :
         calls = [c \in {ver} |-> NewCall(ver, id, Input(<<>>, Nil), PredicateTrue)]

\* the responses of the remote side two concurrent calls run against
ConcurrentResponses ==
    [recs : {<<>>, <<"r1">>, <<"r1", "r2">>},
     err : {NoErr, Fault(ErrCodeDBInstanceNotFoundFault), Fault("RequestCanceled")}]

\* two calls in the same process: a v1 resolver, and a v1 or v2 resolver for
\* the same or for another identifier
InitConcurrent ==
    /\ remote \in [byFilter : ConcurrentResponses, byName : ConcurrentResponses]
    /\ \E ver \in {"v1", "v2"}, id \in {IdDbXYZ, IdMydb} :
         calls = [c \in {"a", "b"} |->
                     IF c = "a"
                     THEN NewCall("v1", IdDbXYZ, Input(<<>>, Nil), PredicateTrue)
                     ELSE NewCall(ver, id, Input(<<>>, Nil), PredicateTrue)]

\* the two resolvers called with the same identifier of ClassifyIds
InitClassify ==
    /\ remote \in [byFilter : Responses, byName : Responses]
    /\ remote.byFilter = remote.byName
    /\ \E id \in ClassifyIds :
         calls = [c \in {"v1", "v2"} |-> NewCall(c, id, Input(<<>>, Nil), PredicateTrue)]

----------------------------------------------------------------------------
(* findDBInstanceByIDSDKv1, findDBInstanceSDKv1, findDBInstancesSDKv1. *)

\* classify the identifier and build the primary request
V1Build(c) ==
    LET s == calls[c]
        looks == MatchString(s.id)
    IN  /\ s.ver = "v1"
        /\ s.pc = "begin"
        /\ Set(c, [s EXCEPT !.idLooksLikeDbiResourceId = looks,
                            !.input = PrimaryInput(s.id, looks),
                            !.pc = "call"])

\* ListCall with the accumulator declared at package level: starting a call
\* empties the accumulator every running call appends to
ListCallSharedOutput(c) ==
    LET s == calls[c]
    IN  /\ s.ver \in {"v1", "list"}
        /\ s.pc = "call"
        /\ calls' = [d \in DOMAIN calls |->
                        IF d = c
                        THEN [s EXCEPT !.queries = Append(@, s.input),
                                       !.listOutput = <<>>,
                                       !.remaining = Describe(s.input).recs,
                                       !.npages = 0,
                                       !.pagerErr = NoErr,
                                       !.pc = "paging"]
                        ELSE [calls[d] EXCEPT !.listOutput = <<>>]]
        /\ UNCHANGED remote

\* findDBInstancesSDKv1 starts the paginated describe call
ListCall(c) ==
    LET s == calls[c]
    IN  /\ s.ver \in {"v1", "list"}
        /\ s.pc = "call"
        /\ Set(c, [s EXCEPT !.queries = Append(@, s.input),
                            !.listOutput = <<>>,
                            !.remaining = Describe(s.input).recs,
                            !.npages = 0,
                            !.pagerErr = NoErr,
                            !.pc = "paging"])

\* the client delivers one page to the callback
PageCallback(c) ==
    LET s == calls[c]
        resp == Describe(s.input)
    IN  /\ s.pc = "paging"
        /\ s.npages < MaxPages
        /\ \E k \in 0..Len(s.remaining), lastPage \in BOOLEAN :
             /\ lastPage => (k = Len(s.remaining) /\ resp.err = NoErr)
             /\ (resp.err = NoErr /\ s.npages = MaxPages - 1) => lastPage
             /\ \E page \in V1Pages(SubSeq(s.remaining, 1, k)) :
                  LET r == PageFn(s.listOutput, page, lastPage, s.filter)
                      stop == ~r.cont \/ lastPage
                  IN  Set(c, [s EXCEPT !.listOutput = r.output,
                                      !.pageIsNil = (page = Nil),
                                      !.lastPage = lastPage,
                                      !.cont = r.cont,
                                      !.remaining = SubSeq(@, k + 1, Len(@)),
                                      !.npages = @ + 1,
                                      !.pc = IF stop THEN "paged" ELSE "paging"])

\* the paginated call fails: the client returns its error
PagerFail(c) ==
    LET s == calls[c]
        resp == Describe(s.input)
    IN  /\ s.pc = "paging"
        /\ resp.err # NoErr
        /\ Set(c, [s EXCEPT !.pagerErr = resp.err, !.pc = "paged"])

\* findDBInstancesSDKv1 returns
ListerReturn(c) ==
    LET s == calls[c]
        list == ListerResult(s.listOutput, s.pagerErr, s.input)
    IN  /\ s.pc = "paged"
        /\ Set(c, [s EXCEPT !.list = list,
                            !.pageIsNil = FALSE, !.lastPage = FALSE, !.cont = TRUE,
                            !.trace = Append(@, [input |-> s.input, recs |-> list.output,
                                                 err |-> s.pagerErr]),
                            !.pc = "listed"])

\* the primary attempt ended not found for a resource-ID-shaped identifier:
\* build the by-name request and call again
V1Fallback(c) ==
    LET s == calls[c]
        r == FindOneResult(s.list)
    IN  /\ s.ver = "v1"
        /\ s.pc = "listed"
        /\ s.attempt = 1
        /\ V1NeedsFallback(s.idLooksLikeDbiResourceId, r.err)
        /\ Set(c, [s EXCEPT !.output = r.rec, !.err = r.err,
                            !.input = FallbackInput(s.id),
                            !.attempt = 2,
                            !.pc = "call"])

\* V1Finish where the fallback assigns to shadowed variables, so that the
\* output and err of the primary attempt are returned
V1FinishShadowed(c) ==
    LET s == calls[c]
        r == FindOneResult(s.list)
    IN  /\ s.ver = "v1"
        /\ s.pc = "listed"
        /\ ~(s.attempt = 1 /\ V1NeedsFallback(s.idLooksLikeDbiResourceId, r.err))
        /\ Set(c, [s EXCEPT !.output = IF s.attempt = 2 THEN s.output ELSE r.rec,
                            !.err = IF s.attempt = 2 THEN s.err ELSE r.err,
                            !.ret = IF s.attempt = 2 THEN V1Return(s.output, s.err)
                                    ELSE V1Return(r.rec, r.err),
                            !.pc = "done"])

\* findDBInstanceByIDSDKv1 returns the outcome of the attempt that ran last
V1Finish(c) ==
    LET s == calls[c]
        r == FindOneResult(s.list)
    IN  /\ s.ver = "v1"
        /\ s.pc = "listed"
        /\ ~(s.attempt = 1 /\ V1NeedsFallback(s.idLooksLikeDbiResourceId, r.err))
        /\ Set(c, [s EXCEPT !.output = r.rec, !.err = r.err,
                            !.ret = V1Return(r.rec, r.err),
                            !.pc = "done"])

----------------------------------------------------------------------------
(* findDBInstanceByIDSDKv2. *)

\* classify the identifier and build the primary request
V2Build(c) ==
    LET s == calls[c]
    IN  /\ s.ver = "v2"
        /\ s.pc = "begin"
        /\ Set(c, [s EXCEPT !.input = PrimaryInput(s.id, MatchString(s.id)),
                            !.pc = "call"])

\* conn.DescribeDBInstances(ctx, input)
V2Describe(c) ==
    LET s == calls[c]
    IN  /\ s.ver = "v2"
        /\ s.pc = "call"
        /\ \E o \in V2Outputs(Describe(s.input)) :
             Set(c, [s EXCEPT !.queries = Append(@, s.input),
                             !.output = o.output,
                             !.err = o.err,
                             !.trace = Append(@, [input |-> s.input,
                                                  recs |-> IF o.output = Nil THEN Nil
                                                           ELSE Ptr(o.output[1].DBInstances),
                                                  err |-> o.err]),
                             !.pc = "described"])

\* the primary call gave no records for a resource-ID-shaped identifier:
\* build the by-name request and call again
V2Fallback(c) ==
    LET s == calls[c]
    IN  /\ s.ver = "v2"
        /\ s.pc = "described"
        /\ s.attempt = 1
        /\ V2NeedsFallback(s.id, s.output)
        /\ Set(c, [s EXCEPT !.input = FallbackInput(s.id),
                            !.attempt = 2,
                            !.pc = "call"])

\* findDBInstanceByIDSDKv2 returns
V2Finish(c) ==
    LET s == calls[c]
    IN  /\ s.ver = "v2"
        /\ s.pc = "described"
        /\ ~(s.attempt = 1 /\ V2NeedsFallback(s.id, s.output))
        /\ Set(c, [s EXCEPT !.ret = V2Return(s.output, s.err, s.input),
                            !.pc = "done"])

----------------------------------------------------------------------------
(* Specifications. *)

Next ==
    \E c \in DOMAIN calls :
        \/ V1Build(c)
        \/ ListCall(c)
        \/ PageCallback(c)
        \/ PagerFail(c)
        \/ ListerReturn(c)
        \/ V1Fallback(c)
        \/ V1Finish(c)
        \/ V2Build(c)
        \/ V2Describe(c)
        \/ V2Fallback(c)
        \/ V2Finish(c)

Spec == Init /\ [][Next]_vars

SpecPair == InitPair /\ [][Next]_vars

\* the classification steps of the two resolvers
NextClassify == \E c \in DOMAIN calls : V1Build(c) \/ V2Build(c)

SpecClassify == InitClassify /\ [][NextClassify]_vars

\* every call keeps running: the code of a call is sequential and each
\* describe call returns
SpecFair == InitFair /\ [][Next]_vars /\ WF_vars(Next)

\* two calls whose steps interleave in any order
SpecConcurrent == InitConcurrent /\ [][Next]_vars

----------------------------------------------------------------------------
(* Vocabulary of the properties. *)

\* the calls of a resolver
Resolvers == {c \in DOMAIN calls : calls[c].ver \in {"v1", "v2"}}

\* the calls that run findDBInstancesSDKv1
Listers == {c \in DOMAIN calls : calls[c].ver \in {"v1", "list"}}

\* the identifiers of Ids of the shape db- plus 2 to 255 alphanumerics
ResourceIdShaped == {IdDbXYZ, IdDbX0}

\* the other identifiers of Ids
NameShaped == {IdMydb, IdDbX, IdDbDash}

\* a failure of the client that is not the not-found fault
IsTransportError(err) == err.kind = "fault" /\ err.code \in OtherCodes

\* the by-name request and the dbi-resource-id request for id, written out
ByNameRequest(id) == [Filters |-> <<>>, DBInstanceIdentifier |-> <<id>>]
ByResourceIdRequest(id) ==
    [Filters |-> << [Name |-> "dbi-resource-id", Values |-> <<id>>] >>,
     DBInstanceIdentifier |-> <<>>]

IsByName(req) == req.DBInstanceIdentifier # <<>>
HasFilter(req) == req.Filters # <<>>

\* the primary attempt of call c has completed
PrimaryCompleted(c) == Len(calls[c].trace) >= 1

----------------------------------------------------------------------------
(* Properties. *)

\* C1: in both resolvers, when the primary attempt ends with a transport
\* error the resolver issues no further query and returns that same error.
C1_TransportErrorEndsResolution ==
    \A c \in Resolvers :
        LET s == calls[c]
        IN  (PrimaryCompleted(c) /\ IsTransportError(s.trace[1].err)) =>
                /\ Len(s.queries) = 1
                /\ s.pc = "done" => s.ret = [rec |-> NilRec, err |-> s.trace[1].err]

\* C2: for a resource-ID-shaped identifier whose dbi-resource-id query
\* returns two or more records, the resolver returns the multiple-results
\* error and never issues the by-name query.
C2_MultipleResultsNoFallback ==
    \A c \in Resolvers :
        LET s == calls[c]
        IN  (/\ s.id \in ResourceIdShaped
             /\ remote.byFilter.err = NoErr
             /\ Len(remote.byFilter.recs) >= 2) =>
                /\ Len(s.queries) <= 1
                /\ \A i \in 1..Len(s.queries) : ~IsByName(s.queries[i])
                /\ s.pc = "done" =>
                       /\ Len(s.queries) = 1
                       /\ s.ret.rec = NilRec
                       /\ s.ret.err.kind = "TooManyResultsError"
                       /\ s.ret.err.n = Len(remote.byFilter.recs)

\* a resolver returned the multiple-results error for the two records of
\* the dbi-resource-id query
C2_Witness ==
    \E c \in Resolvers :
        /\ calls[c].id \in ResourceIdShaped
        /\ remote.byFilter.err = NoErr
        /\ Len(remote.byFilter.recs) = 2
        /\ remote.byName.err = NoErr
        /\ Len(remote.byName.recs) = 1
        /\ calls[c].pc = "done"
        /\ calls[c].ret.err.kind = "TooManyResultsError"

\* the dbi-resource-id query of the remote side ends not found: with the
\* not-found fault, or with no record
PrimaryNotFound ==
    \/ remote.byFilter.err = Fault(ErrCodeDBInstanceNotFoundFault)
    \/ remote.byFilter.err = NoErr /\ remote.byFilter.recs = <<>>

\* C3: for a resource-ID-shaped identifier whose dbi-resource-id query ends
\* not found, the resolver issues exactly one more query, the by-name query
\* for the same identifier, after the primary attempt completed, and no third.
C3_OneFallbackAfterNotFound ==
    \A c \in Resolvers :
        LET s == calls[c]
        IN  (s.id \in ResourceIdShaped /\ PrimaryNotFound) =>
                /\ Len(s.queries) <= 2
                /\ Len(s.queries) >= 1 => s.queries[1] = ByResourceIdRequest(s.id)
                /\ Len(s.queries) = 2 =>
                       /\ PrimaryCompleted(c)
                       /\ s.queries[2] = ByNameRequest(s.id)
                /\ s.pc = "done" => (Len(s.queries) = 2 /\ Len(s.trace) = 2)

\* a resolver finished after the by-name query that followed a not-found
\* dbi-resource-id query
C3_Witness ==
    \E c \in Resolvers :
        /\ calls[c].id \in ResourceIdShaped
        /\ PrimaryNotFound
        /\ calls[c].pc = "done"
        /\ Len(calls[c].queries) = 2

\* C4: for a name-shaped identifier the resolver issues exactly one query,
\* the by-name query, whatever it returns; and no resolver ever issues a
\* dbi-resource-id query after a by-name query.
C4_NameShapedOneQuery ==
    \A c \in Resolvers :
        LET s == calls[c]
        IN  /\ s.id \in NameShaped =>
                  /\ Len(s.queries) <= 1
                  /\ \A i \in 1..Len(s.queries) : s.queries[i] = ByNameRequest(s.id)
                  /\ s.pc = "done" => Len(s.queries) = 1
            /\ \A i, j \in 1..Len(s.queries) :
                  (i < j /\ IsByName(s.queries[i])) => ~HasFilter(s.queries[j])

\* a resolver finished a name-shaped identifier whose by-name query ended
\* not found
C4_Witness ==
    \E c \in Resolvers :
        /\ calls[c].id \in NameShaped
        /\ calls[c].pc = "done"
        /\ Len(calls[c].queries) = 1
        /\ calls[c].ret.err.kind = "NotFoundError"

\* the outcome of one attempt whose describe call the remote side answers
\* with resp: the error of a failed call (the not-found fault as not found),
\* else the single record, not found for none, multiple results for several
AttemptOutcomeKind(resp) ==
    IF resp.err = Fault(ErrCodeDBInstanceNotFoundFault) THEN "NotFoundError"
    ELSE IF resp.err # NoErr THEN "TransportError"
    ELSE IF Len(resp.recs) = 0 THEN "NotFoundError"
    ELSE IF Len(resp.recs) = 1 THEN "Record"
    ELSE "TooManyResultsError"

\* the kind of what a resolver returned
OutcomeKind(ret) ==
    IF ret.err = NoErr THEN "Record"
    ELSE IF ret.err.kind = "fault" THEN "TransportError"
    ELSE ret.err.kind

\* C5: the resolver returns the outcome of the fallback attempt when the
\* fallback ran and of the primary attempt otherwise; the result and error
\* of a primary attempt that was followed by the fallback are discarded.
C5_OutcomeOfLastAttempt ==
    \A c \in Resolvers :
        LET s == calls[c]
            resp == IF Len(s.queries) = 2 THEN remote.byName
                    ELSE IF s.id \in ResourceIdShaped THEN remote.byFilter
                    ELSE remote.byName
            kind == AttemptOutcomeKind(resp)
        IN  s.pc = "done" =>
                /\ OutcomeKind(s.ret) = kind
                /\ kind = "Record" => s.ret = [rec |-> resp.recs[1], err |-> NoErr]
                /\ kind = "TransportError" => s.ret = [rec |-> NilRec, err |-> resp.err]
                /\ kind # "Record" => s.ret.rec = NilRec

\* a resolver returned the one record of the by-name query after the
\* dbi-resource-id query ended with the not-found fault
C5_Witness ==
    \E c \in Resolvers :
        /\ calls[c].id \in ResourceIdShaped
        /\ remote.byFilter.err = Fault(ErrCodeDBInstanceNotFoundFault)
        /\ remote.byName = [recs |-> <<"r2">>, err |-> NoErr]
        /\ calls[c].pc = "done"
        /\ Len(calls[c].queries) = 2
        /\ calls[c].ret = [rec |-> "r2", err |-> NoErr]

\* C6: a resolver returns a record only when the result set of the last
\* attempt holds exactly one record, which is the record returned; an empty
\* result set gives not found and one of several records gives the
\* multiple-results error, with no record returned.
C6_SingleResultOnly ==
    \A c \in Resolvers :
        LET s == calls[c]
            last == s.trace[Len(s.trace)]
            results == IF last.recs = Nil THEN <<>> ELSE last.recs[1]
        IN  s.pc = "done" =>
                /\ s.ret.rec # NilRec =>
                       (last.err = NoErr /\ results = <<s.ret.rec>> /\ s.ret.err = NoErr)
                /\ (last.err = NoErr /\ Len(results) = 1) =>
                       s.ret = [rec |-> results[1], err |-> NoErr]
                /\ (last.err = NoErr /\ Len(results) = 0) =>
                       (s.ret.rec = NilRec /\ s.ret.err.kind = "NotFoundError")
                /\ (last.err = NoErr /\ Len(results) >= 2) =>
                       /\ s.ret.rec = NilRec
                       /\ s.ret.err.kind = "TooManyResultsError"
                       /\ s.ret.err.n = Len(results)

\* a resolver returned the multiple-results error for a result set of two
\* different records of the by-name query
C6_Witness ==
    \E c \in Resolvers :
        LET s == calls[c]
        IN  /\ s.pc = "done"
            /\ Len(s.trace) = 2
            /\ s.trace[2].recs = Ptr(<<"r1", "r2">>)
            /\ s.ret.rec = NilRec
            /\ s.ret.err.kind = "TooManyResultsError"

\* the records of recs that pass the predicate, in the order of recs
Passing(recs, filter) == SelectSeq(recs, LAMBDA v : v \in filter)

\* C7: when the paginated call of findDBInstancesSDKv1 ends without error,
\* the result set is the sequence of the predicate-passing records the remote
\* side served, in the order served, however the records were split into
\* pages.
C7_DrainIsConcatenation ==
    \A c \in Listers :
        LET s == calls[c]
        IN  (s.pc = "listed" /\ s.pagerErr = NoErr) =>
                /\ s.list.err = NoErr
                /\ s.list.output = Ptr(Passing(Describe(s.input).recs, s.filter))

\* findDBInstancesSDKv1 returned one record of two that came in two pages,
\* under a predicate that rejects the other
C7_Witness ==
    \E c \in Listers :
        LET s == calls[c]
        IN  /\ s.pc = "listed"
            /\ s.pagerErr = NoErr
            /\ s.npages = 2
            /\ s.filter = {"r2"}
            /\ Describe(s.input).recs = <<"r1", "r2">>
            /\ s.list.output = Ptr(<<"r2">>)

\* the outcome kinds and the queries of the two resolvers
SameContract ==
    /\ calls["v1"].queries = calls["v2"].queries
    /\ OutcomeKind(calls["v1"].ret) = OutcomeKind(calls["v2"].ret)

\* C8: given the same identifier and the same remote responses, the v1 and
\* the v2 resolver issue the same queries and return the same kind of outcome.
C8_OneContract ==
    (calls["v1"].pc = "done" /\ calls["v2"].pc = "done") => SameContract

\* C9: every request a resolver issues has exactly one of the
\* dbi-resource-id filter and the by-name field; the primary request carries
\* the filter with the value id iff the identifier is resource-ID-shaped, and
\* the fallback request carries only the by-name field set to id.
C9_ExactlyOneSelector ==
    \A c \in Resolvers :
        LET s == calls[c]
        IN  /\ \A i \in 1..Len(s.queries) : HasFilter(s.queries[i]) # IsByName(s.queries[i])
            /\ Len(s.queries) >= 1 =>
                  /\ s.id \in ResourceIdShaped => s.queries[1] = ByResourceIdRequest(s.id)
                  /\ s.id \in NameShaped => s.queries[1] = ByNameRequest(s.id)
            /\ \A i \in 2..Len(s.queries) : s.queries[i] = ByNameRequest(s.id)

\* a resolver issued the dbi-resource-id request and then the by-name request
C9_Witness ==
    \E c \in Resolvers :
        calls[c].queries = <<ByResourceIdRequest(IdDbX0), ByNameRequest(IdDbX0)>>

\* C10: when the paginated call fails, findDBInstancesSDKv1 returns an error
\* and no result set, whatever the earlier pages delivered, and the v1
\* resolver returns no record from such an attempt.
C10_NoTruncatedResult ==
    \A c \in Listers :
        LET s == calls[c]
        IN  /\ (s.pc = "listed" /\ s.pagerErr # NoErr) =>
                  /\ s.list.output = Nil
                  /\ s.list.err # NoErr
                  /\ IsTransportError(s.pagerErr) => s.list.err = s.pagerErr
            /\ (s.pc = "done" /\ s.pagerErr # NoErr) =>
                  (s.ret.rec = NilRec /\ s.ret.err # NoErr)

\* findDBInstancesSDKv1 returned the error of a call that was cancelled after
\* a page with a matching record had been delivered
C10_Witness ==
    \E c \in Listers :
        LET s == calls[c]
        IN  /\ s.pc = "listed"
            /\ s.npages >= 1
            /\ s.listOutput # <<>>
            /\ s.pagerErr = Fault("RequestCanceled")
            /\ s.list = [output |-> Nil, err |-> Fault("RequestCanceled")]

\* the identifiers of ClassifyIds that are db- followed by 2 to 255
\* characters of [0-9A-Za-z]
ExpectedResourceIds ==
    {IdDbXYZ, IdDbX0} \cup
    {DbDash(Rep(ch, n)) : ch \in {"a", "Z", "7"}, n \in {2, 3, 254, 255}}

\* C11: an identifier is classified as resource-ID-shaped iff it is db-
\* followed by 2 to 255 characters of [0-9A-Za-z], every other string as
\* name-shaped, and v1 and v2 classify every string identically.
C11_Classification ==
    /\ calls["v1"].pc # "begin" =>
          /\ calls["v1"].idLooksLikeDbiResourceId = (calls["v1"].id \in ExpectedResourceIds)
          /\ HasFilter(calls["v1"].input) = (calls["v1"].id \in ExpectedResourceIds)
    /\ calls["v2"].pc # "begin" =>
          HasFilter(calls["v2"].input) = (calls["v2"].id \in ExpectedResourceIds)
    /\ (calls["v1"].pc # "begin" /\ calls["v2"].pc # "begin") =>
          /\ calls["v1"].idLooksLikeDbiResourceId = HasFilter(calls["v2"].input)
          /\ calls["v1"].input = calls["v2"].input

\* both resolvers classified db- plus 255 characters as a resource ID
C11_Witness ==
    /\ calls["v1"].id = DbDash(Rep("Z", 255))
    /\ calls["v1"].pc = "call"
    /\ calls["v2"].pc = "call"
    /\ calls["v1"].idLooksLikeDbiResourceId
    /\ HasFilter(calls["v2"].input)

\* both resolvers classified db- plus 256 characters as a name
C11_WitnessTooLong ==
    /\ calls["v1"].id = DbDash(Rep("Z", 256))
    /\ calls["v1"].pc = "call"
    /\ calls["v2"].pc = "call"
    /\ ~calls["v1"].idLooksLikeDbiResourceId
    /\ IsByName(calls["v2"].input)

\* the records the client has handed to the callback so far
Served(s) ==
    SubSeq(Describe(s.input).recs, 1, Len(Describe(s.input).recs) - Len(s.remaining))

\* C12: the page callback asks for the next page after every page not marked
\* last, a nil or empty page included, and stops only at the page marked
\* last; the drain ends without error only at the last page, and the
\* accumulator holds every predicate-passing record of the pages observed.
C12_CallbackContinuesUntilLastPage ==
    \A c \in Listers :
        LET s == calls[c]
        IN  /\ (s.pc \in {"paging", "paged"} /\ s.npages >= 1) =>
                  /\ s.cont = ~s.lastPage
                  /\ s.listOutput = Passing(Served(s), s.filter)
            /\ (s.pc = "paging" /\ s.npages >= 1) => ~s.lastPage
            /\ (s.pc = "paged" /\ s.pagerErr = NoErr) =>
                  (s.lastPage /\ s.remaining = <<>>)

\* the callback asked for the next page after a nil page that was not the
\* last, with records still to come
C12_Witness ==
    \E c \in Listers :
        LET s == calls[c]
        IN  /\ s.pc = "paging"
            /\ s.npages = 1
            /\ s.pageIsNil
            /\ ~s.lastPage
            /\ s.cont
            /\ s.remaining # <<>>
            /\ Describe(s.input).err = NoErr

\* the request of the attempt of call s that ran last: the by-name request
\* of a fallback or of a name-shaped identifier, else the dbi-resource-id
\* request
LastRequestExpected(s) ==
    IF Len(s.queries) = 2 \/ s.id \in NameShaped
    THEN ByNameRequest(s.id)
    ELSE ByResourceIdRequest(s.id)

\* C13: when the describe call of the last attempt fails with the not-found
\* fault the caller receives a NotFoundError whose LastError is that fault
\* and whose LastRequest is the request of that attempt; when it fails with
\* any other error the caller receives that error value unchanged.
C13_ErrorTranslation ==
    \A c \in Resolvers :
        LET s == calls[c]
            last == s.trace[Len(s.trace)]
        IN  s.pc = "done" =>
                /\ last.err = Fault(ErrCodeDBInstanceNotFoundFault) =>
                       /\ s.ret.rec = NilRec
                       /\ s.ret.err = [kind |-> "NotFoundError",
                                       code |-> ErrCodeDBInstanceNotFoundFault,
                                       LastRequest |-> <<LastRequestExpected(s)>>,
                                       Message |-> "", n |-> 0]
                       /\ last.input = LastRequestExpected(s)
                /\ IsTransportError(last.err) =>
                       s.ret = [rec |-> NilRec, err |-> last.err]

\* a resolver returned the NotFoundError of a by-name fallback that failed
\* with the not-found fault
C13_Witness ==
    \E c \in Resolvers :
        LET s == calls[c]
        IN  /\ s.pc = "done"
            /\ Len(s.trace) = 2
            /\ s.trace[2].err = Fault(ErrCodeDBInstanceNotFoundFault)
            /\ s.ret.err.kind = "NotFoundError"
            /\ s.ret.err.LastRequest = <<ByNameRequest(s.id)>>

\* call c has returned
Returned(c) ==
    \/ calls[c].pc = "done"
    \/ calls[c].ver = "list" /\ calls[c].pc = "listed"

\* a resolver has issued at most two queries, all different, the second only
\* after the first attempt completed, and at least one once it has returned
QueriesInTurn ==
    \A c \in Resolvers :
        LET s == calls[c]
        IN  /\ Len(s.queries) <= 2
            /\ Len(s.queries) <= Len(s.trace) + 1
            /\ Len(s.trace) <= Len(s.queries)
            /\ \A i, j \in 1..Len(s.queries) : i < j => s.queries[i] # s.queries[j]
            /\ s.pc = "done" => (Len(s.queries) >= 1 /\ Len(s.trace) = Len(s.queries))

\* C14: every resolution call terminates, having issued at least one and at
\* most two describe queries; the fallback query is issued only after the
\* primary call has returned, and no query is issued a second time.
C14_TerminatesWithinTwoQueries ==
    /\ []QueriesInTurn
    /\ <>(\A c \in DOMAIN calls : Returned(c))

\* a resolver returned after two queries, the second of which failed
C14_Witness ==
    \E c \in Resolvers :
        LET s == calls[c]
        IN  /\ s.pc = "done"
            /\ Len(s.queries) = 2
            /\ IsTransportError(s.trace[2].err)
            /\ s.ret.err = s.trace[2].err

\* the four outcomes of a resolution call
IsRecordOutcome(ret) == ret.rec \in Records /\ ret.err = NoErr
IsNotFoundOutcome(ret) == ret.rec = NilRec /\ ret.err.kind = "NotFoundError"
IsMultipleOutcome(ret) == ret.rec = NilRec /\ ret.err.kind = "TooManyResultsError"
IsTransportOutcome(ret) == ret.rec = NilRec /\ IsTransportError(ret.err)

\* C15: every resolution call ends in exactly one of: a record with no
\* error, NotFoundError, the multiple-results error, a transport error; a
\* record never comes with an error, and a call whose last attempt failed
\* returns no record.
C15_ExactlyOneOutcome ==
    \A c \in Resolvers :
        LET s == calls[c]
            last == s.trace[Len(s.trace)]
            n == (IF IsRecordOutcome(s.ret) THEN 1 ELSE 0)
                 + (IF IsNotFoundOutcome(s.ret) THEN 1 ELSE 0)
                 + (IF IsMultipleOutcome(s.ret) THEN 1 ELSE 0)
                 + (IF IsTransportOutcome(s.ret) THEN 1 ELSE 0)
        IN  s.pc = "done" =>
                /\ n = 1
                /\ s.ret.rec # NilRec => s.ret.err = NoErr
                /\ last.err # NoErr => (s.ret.rec = NilRec /\ s.ret.err # NoErr)

\* a resolver returned the transport error of its only attempt, which had
\* records to serve
C15_Witness ==
    \E c \in Resolvers :
        LET s == calls[c]
        IN  /\ s.pc = "done"
            /\ Len(s.trace) = 1
            /\ IsTransportError(s.trace[1].err)
            /\ Describe(s.trace[1].input).recs # <<>>
            /\ IsTransportOutcome(s.ret)

\* what findDBInstanceSDKv1 returns for input when the call runs alone
AloneFindOne(input) ==
    FindOneResult(ListerResult(Describe(input).recs, Describe(input).err, input))

\* the queries and the outcome of findDBInstanceByIDSDKv1(id) run alone
AloneV1(id) ==
    LET looks == MatchString(id)
        r1 == AloneFindOne(PrimaryInput(id, looks))
    IN  IF V1NeedsFallback(looks, r1.err)
        THEN [queries |-> <<PrimaryInput(id, looks), FallbackInput(id)>>,
              ret |-> V1Return(AloneFindOne(FallbackInput(id)).rec,
                               AloneFindOne(FallbackInput(id)).err)]
        ELSE [queries |-> <<PrimaryInput(id, looks)>>, ret |-> V1Return(r1.rec, r1.err)]

\* what the v2 client returns for input when the call runs alone
AloneDescribe(input) == CHOOSE o \in V2Outputs(Describe(input)) : TRUE

\* the queries and the outcome of findDBInstanceByIDSDKv2(id) run alone
AloneV2(id) ==
    LET in1 == PrimaryInput(id, MatchString(id))
        in2 == FallbackInput(id)
        o1 == AloneDescribe(in1)
    IN  IF V2NeedsFallback(id, o1.output)
        THEN [queries |-> <<in1, in2>>,
              ret |-> V2Return(AloneDescribe(in2).output, AloneDescribe(in2).err, in2)]
        ELSE [queries |-> <<in1>>, ret |-> V2Return(o1.output, o1.err, in1)]

Alone(s) == IF s.ver = "v1" THEN AloneV1(s.id) ELSE AloneV2(s.id)

\* the queries a call has issued are those it issues alone, and a call that
\* returned has the outcome it has alone
SameAsAlone ==
    \A c \in Resolvers :
        LET s == calls[c]
            alone == Alone(s)
        IN  /\ Len(s.queries) <= Len(alone.queries)
            /\ s.queries = SubSeq(alone.queries, 1, Len(s.queries))
            /\ s.pc = "done" =>
                  /\ s.queries = alone.queries
                  /\ OutcomeKind(s.ret) = OutcomeKind(alone.ret)
                  /\ s.ret.rec = alone.ret.rec

\* a step changes the state of one call and of no other
OneCallSteps == \E c \in DOMAIN calls : \A d \in DOMAIN calls \ {c} : calls'[d] = calls[d]

\* C16: two resolution calls that run concurrently against an unchanging
\* remote side issue, under every interleaving, the queries and reach the
\* outcome each has when run alone, and no step of one call changes the
\* requests or the accumulator of the other.
C16_ConcurrentCallsIndependent ==
    /\ []SameAsAlone
    /\ [][OneCallSteps]_vars

\* both calls are in the middle of their pagination: each has accumulated a
\* record of its first page, and the first has a page to come
C16_Witness ==
    /\ calls["a"].pc = "paging"
    /\ calls["a"].listOutput = <<"r1">>
    /\ calls["a"].remaining = <<"r2">>
    /\ calls["b"].ver = "v1"
    /\ calls["b"].pc = "paging"
    /\ calls["b"].npages = 1
    /\ calls["b"].listOutput = <<"r1">>

====
